---- MODULE Spec2Model ----
(***************************************************************************)
(* SocialTradeBuilder: the adaptive mention-polling scheduler, the rate-   *)
(* limit tracker, the command parser and the trade orchestrator.           *)
(*                                                                         *)
(* Ten specifications share one set of variables:                          *)
(*   SpecParse  parseCommand applied to bounded texts                      *)
(*   SpecWords  parseCommand and validateCommand on a wider vocabulary     *)
(*   SpecRL     isRateLimited / updateRateLimit / resetRateLimits          *)
(*   SpecTrade  the HTTP entry points that create and finalize Trades      *)
(*   SpecFlow   POST /process-command alone, its continuation run fairly   *)
(*   SpecEntry  one message handed to every entry point                    *)
(*   SpecPoll   the polling scheduler of one bot                           *)
(*   SpecCycle  one poll cycle, with failures inside its loop              *)
(*   SpecBatch  one poll cycle and the Trades its mentions create          *)
(*   SpecBots   the scheduler and a bot created after it was initialised   *)
(* A variable a specification does not use keeps its initial value.        *)
(***************************************************************************)
EXTENDS Integers, Sequences, FiniteSets, Bags, TLC

VARIABLES
    text,            \* SpecParse: the tweet text, a sequence of words
    parsed,          \* SpecParse: <<>>, then <<what parseCommand returned>>
    validation,      \* SpecWords: <<>>, then <<what validateCommand returned>>
    now,             \* the clock, in seconds
    rateLimitState,  \* twitter.ts rateLimitState: endpoint -> [reset, isLimited]
    limitRecorded,   \* history: endpoint -> {reset time of the limit in force}, or {}
    lastCheck,       \* history: <<the last isRateLimited call and what it returned>>
    lastAnswer,      \* SpecRL history: <<the last answer of the search endpoint>>
    trades,          \* the trades table: a sequence of rows, the id is the index
    flows,           \* process-command continuations still running, by trade id
    balance,         \* the wallet's SOL balance, in hundredths of a SOL
    swapCalls,       \* history: executeJupiterSwap invocations, per trade id
    statusWrites,    \* history: updateTradeStatus calls, per trade id
    lastWrite,       \* history: <<the last updateTradeStatus call>>
    tweets,          \* SpecEntry: the tweets table, the rows process-pending-tweets reads
    handled,         \* SpecEntry history: the requests handled, with what each one did
    webhook,         \* the bot's twitter_webhooks row: lastMentionId, nextPollTime, backoffSeconds
    posted,          \* how many mentions of the bot exist on the social platform
    polls,           \* the pollBotMentions calls in flight, a bag
    started,         \* how many polls the ticks have started
    handed,          \* history: mention id -> how often processMention got it (capped)
    lastFinished     \* history: <<the last poll that persisted its schedule>>

None == "none"

(***************************************************************************)
(* Words.  A text is a sequence of words separated by white space; " " is  *)
(* a run of extra white space (leading, trailing or doubled).  The         *)
(* regular expressions of the parser are case-insensitive and anchored at  *)
(* word boundaries, so they see a text as its words.                       *)
(***************************************************************************)
\* String.prototype.toLowerCase on the words used here
toLowerCase(w) ==
    CASE w = "@Bot" -> "@bot"
      [] w = "Buy"  -> "buy"
      [] w = "Swap" -> "swap"
      [] w = "FOR"  -> "for"
      [] w = "SOL"  -> "sol"
      [] w = "USDC" -> "usdc"
      [] w = "Jup"  -> "jup"
      [] w = "JUP"  -> "jup"
      [] OTHER      -> w

\* String.prototype.toUpperCase on the token symbols
toUpperCase(w) ==
    CASE toLowerCase(w) = "sol"  -> "SOL"
      [] toLowerCase(w) = "usdc" -> "USDC"
      [] toLowerCase(w) = "jup"  -> "JUP"
      [] OTHER                   -> w

\* parseFloat of a numeric word, in hundredths
parseFloat(w) ==
    CASE w = "1"    -> 100
      [] w = "0.01" -> 1
      [] OTHER      -> 0

\* the bot's twitterUsername is "bot": `@${botName}` under the i flag
botMention == "@bot"

\* an action pattern without the word boundaries: it finds the verb inside "swaps"
ACTION_PATTERN_Unanchored(w) == toLowerCase(w) \in {"buy", "sell", "swap", "swaps"}

ACTION_PATTERN(w) == toLowerCase(w) \in {"buy", "sell", "swap"}
AMOUNT_PATTERN(w) == w \in {"1", "0", "0.01"}
CONNECTING_WORDS(w) == toLowerCase(w) \in {"of", "for", "to", "with"}
SUPPORTED_TOKENS == {"SOL", "USDC", "JUP"}
TOKEN_PATTERN(w) == toUpperCase(w) \in SUPPORTED_TOKENS
FOR_PATTERN(w) == toLowerCase(w) = "for"

\* the positions of s whose word satisfies P, in increasing order
RECURSIVE MatchAll(_, _, _)
MatchAll(s, P(_), i) ==
    IF i > Len(s) THEN <<>>
    ELSE IF P(s[i]) THEN <<i>> \o MatchAll(s, P, i + 1)
    ELSE MatchAll(s, P, i + 1)

\* String.prototype.match without the g flag: the first match, 0 when none
Match(s, P(_)) ==
    LET all == MatchAll(s, P, 1) IN IF all = <<>> THEN 0 ELSE all[1]

IsHandle(w) == toLowerCase(w) = botMention

RECURSIVE TrimLeft(_)
TrimLeft(s) == IF s # <<>> /\ s[1] = " " THEN TrimLeft(Tail(s)) ELSE s

RECURSIVE TrimRight(_)
TrimRight(s) ==
    IF s # <<>> /\ s[Len(s)] = " " THEN TrimRight(SubSeq(s, 1, Len(s) - 1)) ELSE s

\* text.replace(new RegExp(`@${botName}`, 'i'), '').trim(): the first mention of
\* the handle goes, then the white space at both ends
Normalize(s) ==
    LET h == Match(s, IsHandle)
        stripped == IF h = 0 THEN s
                    ELSE SubSeq(s, 1, h - 1) \o SubSeq(s, h + 1, Len(s))
    IN  TrimRight(TrimLeft(stripped))

\* the upper-cased token symbols of s, in the order they occur
Tokens(s) == LET m == MatchAll(s, TOKEN_PATTERN, 1)
             IN  [k \in 1..Len(m) |-> toUpperCase(s[m[k]])]

FirstTwo(t) == [inToken |-> t[1], outToken |-> t[2]]

\* parseCommand, the buy branch
BuyTokens(n) ==
    LET all == Tokens(n)
        c == Match(n, CONNECTING_WORDS)
        before == Tokens(SubSeq(n, 1, c - 1))
        after == Tokens(SubSeq(n, c, Len(n)))
    IN  IF c # 0 /\ before # <<>> /\ after # <<>>
        THEN [inToken |-> before[1], outToken |-> after[1]]
        ELSE FirstTwo(all)

\* parseCommand, the sell branch
SellTokens(n) == LET all == Tokens(n) IN [inToken |-> all[2], outToken |-> all[1]]

\* a swap branch that takes the first token before "for" instead of the last
SwapTokens_FirstBefore(n) ==
    LET all == Tokens(n)
        f == Match(n, FOR_PATTERN)
        before == Tokens(SubSeq(n, 1, f - 1))
        after == Tokens(SubSeq(n, f + 1, Len(n)))
    IN  IF f # 0 /\ f # 1 /\ before # <<>> /\ after # <<>>
        THEN [inToken |-> before[1], outToken |-> after[1]]
        ELSE FirstTwo(all)

\* parseCommand, the swap branch.  forMatch.index is 0, and so falsy, when
\* "for" is the first word of the normalized text.
SwapTokens(n) ==
    LET all == Tokens(n)
        f == Match(n, FOR_PATTERN)
        before == Tokens(SubSeq(n, 1, f - 1))
        after == Tokens(SubSeq(n, f + 1, Len(n)))
    IN  IF f # 0 /\ f # 1 /\ before # <<>> /\ after # <<>>
        THEN [inToken |-> before[Len(before)], outToken |-> after[1]]
        ELSE FirstTwo(all)

\* parseCommand returning null
NullCommand ==
    [ok |-> FALSE, action |-> None, inToken |-> None, outToken |-> None, amount |-> 0]

\* parseCommand(text, botName)
parseCommand(t) ==
    LET n == Normalize(t)
        a == Match(n, ACTION_PATTERN)
        m == Match(n, AMOUNT_PATTERN)
        action == toLowerCase(n[a])
        tk == CASE action = "buy"  -> BuyTokens(n)
                [] action = "sell" -> SellTokens(n)
                [] OTHER           -> SwapTokens(n)
    IN  IF a = 0 \/ m = 0 \/ Len(Tokens(n)) < 2 THEN NullCommand
        ELSE [ok |-> TRUE, action |-> action, inToken |-> tk.inToken, outToken |-> tk.outToken,
              amount |-> parseFloat(n[m])]

(***************************************************************************)
(* The variables of each part, and the values they keep where unused.      *)
(***************************************************************************)
parseVars == <<text, parsed, validation>>
rlVars == <<rateLimitState, limitRecorded, lastCheck, lastAnswer>>
tradeVars == <<trades, flows, balance, swapCalls, statusWrites, lastWrite>>
entryVars == <<tweets, handled>>
pollVars == <<webhook, posted, polls, started, handed, lastFinished>>
vars == <<text, parsed, validation, now, rateLimitState, limitRecorded, lastCheck, lastAnswer,
          trades, flows, balance, swapCalls, statusWrites, lastWrite, tweets, handled,
          webhook, posted, polls, started, handed, lastFinished>>

Endpoints == {"userTimeline", "userLookup", "search_recent"}

ParseIdle == text = <<>> /\ parsed = <<>> /\ validation = <<>>
\* twitter.ts: rateLimitState starts { reset: 0, isLimited: false } everywhere
RLIdle ==
    /\ rateLimitState = [e \in Endpoints |-> [reset |-> 0, isLimited |-> FALSE]]
    /\ limitRecorded = [e \in Endpoints |-> {}]
    /\ lastCheck = <<>>
    /\ lastAnswer = <<>>
TradeIdle ==
    /\ trades = <<>>
    /\ flows = <<>>
    /\ balance = 0
    /\ swapCalls = <<>>
    /\ statusWrites = <<>>
    /\ lastWrite = <<>>
EntryIdle == tweets = <<>> /\ handled = <<>>
PollIdle ==
    /\ webhook = <<>>
    /\ posted = 0
    /\ polls = <<>>
    /\ started = 0
    /\ handed = <<>>
    /\ lastFinished = <<>>

(***************************************************************************)
(* SpecParse: parseCommand on every text of at most MaxLen words.          *)
(***************************************************************************)
MaxLen == 6

ParseWords == {"@Bot", " ", "swap", "1", "for", "sol", "USDC"}

TextsUpTo(n) == UNION {[1..k -> ParseWords] : k \in 0..n}

InitParse ==
    /\ text \in TextsUpTo(MaxLen)
    /\ parsed = <<>>
    /\ validation = <<>>
    /\ now = 0
    /\ RLIdle
    /\ TradeIdle
    /\ EntryIdle
    /\ PollIdle

\* POST /process-command hands tweetText to parseCommand
Parse ==
    /\ parsed = <<>>
    /\ parsed' = <<parseCommand(text)>>
    /\ UNCHANGED <<text, validation, now, rlVars, tradeVars, entryVars, pollVars>>

NextParse == Parse

SpecParse == InitParse /\ [][NextParse]_vars

\* ---- C10 ----
ForPositions == {i \in 1..Len(text) : toLowerCase(text[i]) = "for"}
TokenPositions == {i \in 1..Len(text) : toUpperCase(text[i]) \in SUPPORTED_TOKENS}
FirstFor == CHOOSE i \in ForPositions : \A j \in ForPositions : i <= j
TokensBeforeFor == {i \in TokenPositions : i < FirstFor}
TokensAfterFor == {i \in TokenPositions : i > FirstFor}
LastBeforeFor == CHOOSE i \in TokensBeforeFor : \A j \in TokensBeforeFor : j <= i
FirstAfterFor == CHOOSE i \in TokensAfterFor : \A j \in TokensAfterFor : i <= j
WellFormedSwapFor ==
    /\ \E i \in 1..Len(text) : toLowerCase(text[i]) = "swap"
    /\ \E i \in 1..Len(text) : text[i] \in {"1", "0", "0.01"}
    /\ ForPositions # {}
    /\ TokensBeforeFor # {}
    /\ TokensAfterFor # {}

\* C10: a parsed text with the action swap, an amount and "for" between supported
\* tokens yields inToken = the last token before "for" and outToken = the first
\* token after it, whatever white space and letter case surround them.
C10_SwapForTokens ==
    (parsed # <<>> /\ WellFormedSwapFor) =>
        /\ parsed[1].ok
        /\ parsed[1].action = "swap"
        /\ parsed[1].inToken = toUpperCase(text[LastBeforeFor])
        /\ parsed[1].outToken = toUpperCase(text[FirstAfterFor])

\* a swap through "for" with two tokens before it, the last of them in lower case
C10_Witness ==
    /\ parsed # <<>>
    /\ WellFormedSwapFor
    /\ Cardinality(TokensBeforeFor) = 2
    /\ text[LastBeforeFor] = "sol"
    /\ parsed[1].ok
    /\ parsed[1].inToken = "SOL"
    /\ parsed[1].outToken = "USDC"

(***************************************************************************)
(* The clock.  Date.now() is read in seconds on a grid of ClockStep        *)
(* seconds up to MaxTime.                                                  *)
(***************************************************************************)
ClockStep == 30
MaxTime == 60

(***************************************************************************)
(* RateLimitTracker (twitter.ts).                                          *)
(***************************************************************************)
\* a tracker that never reports a limit
isRateLimited_Never(st, e, t) == [result |-> FALSE, state |-> st]

\* isRateLimited off by one: still limited at the reset time itself
isRateLimited_AtReset(st, e, t) ==
    IF st[e].isLimited /\ t <= st[e].reset
    THEN [result |-> TRUE, state |-> st]
    ELSE [result |-> FALSE,
          state |-> IF st[e].isLimited THEN [st EXCEPT ![e].isLimited = FALSE] ELSE st]

\* isRateLimited(endpoint) at time t: what it returns and the state it leaves
isRateLimited(st, e, t) ==
    IF st[e].isLimited /\ t < st[e].reset
    THEN [result |-> TRUE, state |-> st]
    ELSE [result |-> FALSE,
          state |-> IF st[e].isLimited THEN [st EXCEPT ![e].isLimited = FALSE] ELSE st]

\* updateRateLimit(endpoint, reset, isLimited)
updateRateLimit(st, e, reset, isLimited) ==
    [st EXCEPT ![e] = [reset |-> reset, isLimited |-> isLimited]]

\* getMentions: remaining quota at or below this records the limit
LowWatermark == 5

\* a getMentions that records the limit only below the watermark
afterSearch_BelowWatermark(st, remaining, reset) ==
    IF remaining < LowWatermark THEN updateRateLimit(st, "search_recent", reset, TRUE) ELSE st

\* getMentions after v2.search returned with rateLimit { remaining, reset }
afterSearch(st, remaining, reset) ==
    IF remaining <= LowWatermark THEN updateRateLimit(st, "search_recent", reset, TRUE) ELSE st

\* handleTwitterError(error, endpoint); error.reset is the end of the server's
\* window, which the client sees only when the error carries rateLimit
handleTwitterError(st, error, endpoint) ==
    IF error.code = 429 /\ error.rateLimit
    THEN updateRateLimit(st, endpoint, error.reset, TRUE)
    ELSE st

\* the reset times a response or a 429 error may carry
ResetTimes == {t \in 0..(MaxTime + ClockStep) : t % ClockStep = 0}

\* the endpoints SpecRL exercises: the mention search and one single-shot lookup
CheckedEndpoints == {"search_recent", "userLookup"}

InitRL ==
    /\ ParseIdle
    /\ now = 0
    /\ RLIdle
    /\ TradeIdle
    /\ EntryIdle
    /\ PollIdle

Advance ==
    /\ now + ClockStep <= MaxTime
    /\ now' = now + ClockStep
    /\ UNCHANGED <<parseVars, entryVars, rlVars, tradeVars, pollVars>>

\* a caller asks isRateLimited(e): getLatestUserTweet, getMentions
CheckRateLimit(e) ==
    LET r == isRateLimited(rateLimitState, e, now) IN
    /\ rateLimitState' = r.state
    /\ lastCheck' = <<[endpoint |-> e, at |-> now, result |-> r.result,
                       recorded |-> limitRecorded[e],
                       answer |-> IF e = "search_recent" THEN lastAnswer ELSE <<>>,
                       flagAfter |-> r.state[e].isLimited]>>
    /\ UNCHANGED <<parseVars, entryVars, now, limitRecorded, lastAnswer, tradeVars, pollVars>>

\* a caller records a limit: remaining quota at the low watermark, or a 429
RecordLimit(e, reset) ==
    /\ rateLimitState' = updateRateLimit(rateLimitState, e, reset, TRUE)
    /\ limitRecorded' = [limitRecorded EXCEPT ![e] = {reset}]
    /\ UNCHANGED <<parseVars, entryVars, now, lastCheck, lastAnswer, tradeVars, pollVars>>

\* the history of limits after the tracker went from rateLimitState to st
Recorded(st) ==
    [e \in Endpoints |-> IF st[e] # rateLimitState[e] /\ st[e].isLimited THEN {st[e].reset}
                          ELSE limitRecorded[e]]

\* v2.search answers a getMentions call with remaining quota and a reset time
SearchAnswered(remaining, reset) ==
    LET st == afterSearch(rateLimitState, remaining, reset) IN
    /\ reset > now
    /\ rateLimitState' = st
    /\ limitRecorded' = Recorded(st)
    /\ lastAnswer' = <<[code |-> 200, rateLimit |-> TRUE, remaining |-> remaining, reset |-> reset]>>
    /\ UNCHANGED <<parseVars, entryVars, now, lastCheck, tradeVars, pollVars>>

\* v2.search throws in a getMentions call
SearchFailed(code, rateLimit, reset) ==
    LET error == [code |-> code, rateLimit |-> rateLimit, reset |-> reset]
        st == handleTwitterError(rateLimitState, error, "search_recent")
    IN
    /\ reset > now
    /\ rateLimitState' = st
    /\ limitRecorded' = Recorded(st)
    /\ lastAnswer' = <<[code |-> code, rateLimit |-> rateLimit, remaining |-> 0, reset |-> reset]>>
    /\ UNCHANGED <<parseVars, entryVars, now, lastCheck, tradeVars, pollVars>>

\* search_recent is recorded by getMentions only; RecordLimit is the callers of
\* the other endpoints
NextRL ==
    \/ Advance
    \/ \E e \in CheckedEndpoints : CheckRateLimit(e)
    \/ \E e \in CheckedEndpoints \ {"search_recent"}, reset \in ResetTimes : RecordLimit(e, reset)
    \/ \E remaining \in {LowWatermark, LowWatermark + 1}, reset \in ResetTimes :
          SearchAnswered(remaining, reset)
    \/ \E code \in {429, 503}, rateLimit \in BOOLEAN, reset \in ResetTimes :
          SearchFailed(code, rateLimit, reset)

SpecRL == InitRL /\ [][NextRL]_vars

\* ---- C9 ----
\* C9: isRateLimited(endpoint) returns true only when the last updateRateLimit(
\* endpoint, reset, true) recorded a reset time still in the future; a check at or
\* after the reset time returns false and leaves the flag cleared.
C9_LimitedOnlyBeforeReset ==
    lastCheck # <<>> =>
        LET c == lastCheck[1] IN
        /\ c.result => (c.recorded # {} /\ \A r \in c.recorded : c.at < r)
        /\ (\A r \in c.recorded : c.at >= r) => (~c.result /\ ~c.flagAfter)

\* a check made exactly at the recorded reset time
C9_Witness ==
    /\ lastCheck # <<>>
    /\ lastCheck[1].recorded = {lastCheck[1].at}
    /\ lastCheck[1].at > 0
    /\ ~lastCheck[1].result

\* ---- C18 ----
\* the answer tells the client of a limit: a 429 that carries rateLimit, or a
\* response whose remaining quota is at or below the low watermark
LimitTold(a) ==
    \/ a.code = 429 /\ a.rateLimit
    \/ a.code = 200 /\ a.remaining <= LowWatermark

\* C18 as stated: after any 429 of the search call, and after a response with
\* remaining quota at or below the low watermark, isRateLimited('search_recent')
\* is true on every check made before the reset time.
C18_Every429Recorded ==
    (lastCheck # <<>> /\ lastCheck[1].answer # <<>>) =>
        LET c == lastCheck[1]
            a == lastCheck[1].answer[1]
        IN  ((a.code = 429 \/ (a.code = 200 /\ a.remaining <= LowWatermark)) /\ c.at < a.reset)
                => c.result

\* C18: after a 429 of the search call that carries rateLimit, and after a
\* response with remaining quota at or below the low watermark, every check of
\* isRateLimited('search_recent') made before the reset time of that answer is
\* true.
C18_ToldLimitRecorded ==
    (lastCheck # <<>> /\ lastCheck[1].answer # <<>>) =>
        LET c == lastCheck[1]
            a == lastCheck[1].answer[1]
        IN  (LimitTold(a) /\ c.at < a.reset) => c.result

\* a response with exactly LowWatermark requests left, checked later but before
\* its reset time
C18_Witness ==
    /\ lastCheck # <<>>
    /\ lastCheck[1].answer # <<>>
    /\ lastCheck[1].answer[1].code = 200
    /\ lastCheck[1].answer[1].remaining = LowWatermark
    /\ lastCheck[1].at > 0
    /\ lastCheck[1].at < lastCheck[1].answer[1].reset
    /\ lastCheck[1].result

(***************************************************************************)
(* Command validation and the trade orchestrator (routes).                 *)
(* Amounts, fees and balances are in hundredths of a SOL.                  *)
(***************************************************************************)
\* the bot's bot_configs row
supportedActions == {"swap", "buy"}
supportedTokens == {"SOL", "USDC"}
\* bot_configs.transaction_fee, '0.01'
transactionFee == parseFloat("0.01")

\* a validation that forgets the action
validateCommand_AnyAction(c) ==
    /\ c.ok
    /\ c.inToken \in supportedTokens
    /\ c.outToken \in supportedTokens
    /\ ~(c.amount <= 0)

\* a validation that forgets the amount
validateCommand_AnyAmount(c) ==
    /\ c.ok
    /\ c.action \in supportedActions
    /\ c.inToken \in supportedTokens
    /\ c.outToken \in supportedTokens

\* validateCommand(parsedCommand, supportedActions, supportedTokens).valid
validateCommand(c) ==
    /\ c.ok
    /\ c.action \in supportedActions
    /\ c.inToken \in supportedTokens
    /\ c.outToken \in supportedTokens
    /\ ~(c.amount <= 0)

(***************************************************************************)
(* SpecWords: parseCommand, then validateCommand, on every text of at most *)
(* MaxWords words of a vocabulary with all three verbs, a word that only   *)
(* contains a verb, a zero amount and a token the bot does not support.    *)
(***************************************************************************)
MaxWords == 4

Vocabulary ==
    {"@Bot", "Buy", "sell", "swap", "swaps", "gm", "1", "0", "for", "sol", "USDC", "JUP"}

InitWords ==
    /\ text \in UNION {[1..k -> Vocabulary] : k \in 0..MaxWords}
    /\ parsed = <<>>
    /\ validation = <<>>
    /\ now = 0
    /\ RLIdle
    /\ TradeIdle
    /\ EntryIdle
    /\ PollIdle

\* POST /process-command hands the parsed command to validateCommand
Validate ==
    /\ parsed # <<>>
    /\ parsed[1].ok
    /\ validation = <<>>
    /\ validation' = <<[valid |-> validateCommand(parsed[1])]>>
    /\ UNCHANGED <<text, parsed, now, rlVars, tradeVars, entryVars, pollVars>>

NextWords == Parse \/ Validate

SpecWords == InitWords /\ [][NextWords]_vars

\* ---- C11 ----
\* the words left once the first mention of the handle is stripped
StrippedWords ==
    LET handles == {i \in 1..Len(text) : toLowerCase(text[i]) = "@bot"}
    IN  {text[i] : i \in {j \in 1..Len(text) :
                              j \in handles => \E k \in handles : k < j}}

\* C11: a text that, once the bot handle is stripped, has none of the verbs buy,
\* sell, swap as a whole word (in any letter case) parses to null, whatever
\* amounts and tokens it has.
C11_NoVerbNoCommand ==
    (parsed # <<>> /\ \A w \in StrippedWords : toLowerCase(w) \notin {"buy", "sell", "swap"})
        => parsed[1] = NullCommand

\* a text with an amount, two tokens and "swaps", which only contains a verb
C11_Witness ==
    /\ parsed # <<>>
    /\ \A w \in StrippedWords : toLowerCase(w) \notin {"buy", "sell", "swap"}
    /\ {"swaps", "1", "sol", "USDC"} \subseteq StrippedWords
    /\ ~parsed[1].ok

\* ---- C12 ----
\* C12: validateCommand rejects every command whose amount is <= 0, whatever its
\* action and tokens, and accepts a command exactly when its action is one of the
\* bot's supported actions, both tokens are among the bot's supported tokens and
\* its amount is > 0.
C12_ValidExactlyWhenSupported ==
    validation # <<>> =>
        LET c == parsed[1] IN
        /\ c.amount <= 0 => ~validation[1].valid
        /\ validation[1].valid <=>
               /\ c.action \in supportedActions
               /\ {c.inToken, c.outToken} \subseteq supportedTokens
               /\ c.amount > 0

\* a supported action on supported tokens rejected for its amount of 0
C12_Witness ==
    /\ validation # <<>>
    /\ parsed[1].action \in supportedActions
    /\ {parsed[1].inToken, parsed[1].outToken} \subseteq supportedTokens
    /\ parsed[1].amount = 0
    /\ ~validation[1].valid

\* a funds check that forgets the fee
validateWalletFunds_NoFee(rpcOk, bal, requiredAmount, fee) ==
    rpcOk /\ bal >= requiredAmount

\* validateWalletFunds(publicKey, requiredAmount, transactionFee): false when
\* getWalletBalance throws
validateWalletFunds(rpcOk, bal, requiredAmount, fee) ==
    rpcOk /\ bal >= requiredAmount + fee

\* storage.updateTradeStatus(id, status, transactionSignature?, errorMessage?):
\* None stands for undefined, which leaves the column as it is
updateTradeStatus(rows, id, status, sig, err) ==
    [rows EXCEPT ![id] = [@ EXCEPT
        !.status = status,
        !.transactionSignature = IF sig # None THEN sig ELSE @,
        !.errorMessage = IF err # None THEN err ELSE @]]

\* what executeJupiterSwap resolves to: it catches its own errors.  The signature
\* is the one sendRawTransaction returned; outputAmount is the quote's amount, and
\* 0 where the result has none (swapResult.outputAmount || "0")
SwapOutcomes ==
    {[success |-> TRUE, signature |-> "onchain", error |-> None, outputAmount |-> 15920],
     [success |-> FALSE, signature |-> None, error |-> "swap error", outputAmount |-> 0]}

\* a continuation without the fallback: it keeps the result of the real swap
OrSimulated_RealOnly(r, amount) == r

\* a fallback whose signature does not say that it is simulated
OrSimulated_Untagged(r, amount) ==
    IF r.success THEN r
    ELSE [success |-> TRUE, signature |-> "onchain", error |-> None, outputAmount |-> 2 * amount]

\* process-command: the real result when it succeeded, else simulatedSwapResult,
\* whose signature is 'simulated_' + Date.now() and whose outputAmount is twice
\* the amount of the trade
OrSimulated(r, amount) ==
    IF r.success THEN r
    ELSE [success |-> TRUE, signature |-> "simulated_", error |-> None, outputAmount |-> 2 * amount]

MaxTrades == 1
MaxWrites == 2

\* the tweets sent to POST /process-command
CommandTexts ==
    {<<"@Bot", "swap", "1", "sol", "for", "USDC">>,
     <<"swap", "0.01", "SOL", "usdc", "@Bot">>,
     <<"@Bot", "swap", "0", "sol", "USDC">>,
     <<"@Bot", "sell", "1", "sol", "USDC">>,
     <<"@Bot", "gm">>}

\* the balances getWalletBalance may report
Balances == {0, parseFloat("1"), parseFloat("1") + transactionFee}

TradeIds == 1..Len(trades)
Terminal == {"completed", "failed"}

\* last: <<the swap result behind the last status write of a swap, and whether it
\* was the simulated one>>
NoFlow == [pc |-> "none", short |-> FALSE, swapInvoked |-> FALSE, wrote |-> <<>>, last |-> <<>>]

\* the row storage.createTrade inserts, and the bookkeeping beside it
InsertTrade(amount, pc) ==
    /\ trades' = Append(trades, [status |-> "pending", amount |-> amount, outAmount |-> 0,
                                 transactionSignature |-> None, errorMessage |-> None])
    /\ flows' = Append(flows, [NoFlow EXCEPT !.pc = pc])
    /\ swapCalls' = Append(swapCalls, 0)
    /\ statusWrites' = Append(statusWrites, 0)

\* createTrade while the table has room
CreateTrade(amount, pc) ==
    /\ Len(trades) < MaxTrades
    /\ InsertTrade(amount, pc)

\* one updateTradeStatus call on row id
WriteStatus(id, status, sig, err) ==
    /\ trades' = updateTradeStatus(trades, id, status, sig, err)
    /\ statusWrites' = [statusWrites EXCEPT ![id] = @ + 1]
    /\ lastWrite' = <<[id |-> id, from |-> trades[id].status, to |-> status]>>

InitTrade ==
    /\ ParseIdle
    /\ now = 0
    /\ RLIdle
    /\ trades = <<>>
    /\ flows = <<>>
    /\ balance \in Balances
    /\ swapCalls = <<>>
    /\ statusWrites = <<>>
    /\ lastWrite = <<>>
    /\ EntryIdle
    /\ PollIdle

\* the wallet is funded or drained from outside
SetBalance(b) ==
    /\ balance # b
    /\ balance' = b
    /\ UNCHANGED <<parseVars, entryVars, now, rlVars, pollVars, trades, flows, swapCalls, statusWrites, lastWrite>>

\* POST /process-command up to the response: parse, validate, createTrade.  A
\* rejected command answers 400 and changes nothing.
ProcessCommand(t) ==
    LET c == parseCommand(t) IN
    /\ Len(trades) < MaxTrades
    /\ validateCommand(c)
    /\ CreateTrade(c.amount, "funds")
    /\ UNCHANGED <<parseVars, entryVars, now, rlVars, pollVars, balance, lastWrite>>

\* POST /process-command after the response: the funds check
FundsCheck(id, rpcOk) ==
    /\ flows[id].pc = "funds"
    /\ IF validateWalletFunds(rpcOk, balance, trades[id].amount, transactionFee)
       THEN /\ flows' = [flows EXCEPT ![id].pc = "swap",
                                      ![id].short = ~rpcOk \/ balance < trades[id].amount + transactionFee]
            /\ UNCHANGED <<trades, statusWrites, lastWrite>>
       ELSE /\ WriteStatus(id, "failed", None, "Insufficient funds")
            /\ flows' = [flows EXCEPT ![id].pc = "done",
                                      ![id].short = ~rpcOk \/ balance < trades[id].amount + transactionFee,
                                      ![id].wrote = Append(@, [status |-> "failed", error |-> "Insufficient funds"])]
    /\ UNCHANGED <<parseVars, entryVars, now, rlVars, pollVars, balance, swapCalls>>

\* POST /process-command after the funds check: executeJupiterSwap, the simulated
\* fallback, updateTradeStatus
ExecuteSwap(id, outcome) ==
    LET r == OrSimulated(outcome, trades[id].amount)
        last == <<[result |-> r, simulated |-> r # outcome]>>
    IN
    /\ flows[id].pc = "swap"
    /\ swapCalls' = [swapCalls EXCEPT ![id] = @ + 1]
    /\ IF r.success
       THEN /\ WriteStatus(id, "completed", r.signature, None)
            /\ flows' = [flows EXCEPT ![id].pc = "done", ![id].swapInvoked = TRUE,
                             ![id].wrote = Append(@, [status |-> "completed", error |-> None]),
                             ![id].last = last]
       ELSE /\ WriteStatus(id, "failed", r.signature, r.error)
            /\ flows' = [flows EXCEPT ![id].pc = "done", ![id].swapInvoked = TRUE,
                             ![id].wrote = Append(@, [status |-> "failed", error |-> r.error]),
                             ![id].last = last]
    /\ UNCHANGED <<parseVars, entryVars, now, rlVars, pollVars, balance>>

\* POST /validate-funds { tradeId }: any row of the table, whatever its status
ValidateFunds(id, rpcOk) ==
    /\ statusWrites[id] < MaxWrites
    /\ ~validateWalletFunds(rpcOk, balance, trades[id].amount, transactionFee)
    /\ WriteStatus(id, "failed", None, "Insufficient funds")
    /\ UNCHANGED <<parseVars, entryVars, now, rlVars, pollVars, balance, flows, swapCalls>>

\* POST /execute-swap without a tradeId: the row is created, then swapped
ExecuteSwapCreate(amount) ==
    /\ CreateTrade(amount, "route")
    /\ UNCHANGED <<parseVars, entryVars, now, rlVars, pollVars, balance, lastWrite>>

\* POST /execute-swap, the standard flow from the row on: the row just created,
\* or the row a request names by tradeId, whatever its status
ExecuteSwapRoute(id, outcome) ==
    /\ statusWrites[id] < MaxWrites
    /\ flows[id].pc \in {"route", "done", "funds", "swap"}
    /\ swapCalls' = [swapCalls EXCEPT ![id] = @ + 1]
    /\ IF outcome.success
       THEN WriteStatus(id, "completed", outcome.signature, None)
       ELSE WriteStatus(id, "failed", outcome.signature, outcome.error)
    /\ flows' = [flows EXCEPT ![id].pc = IF @ = "route" THEN "done" ELSE @,
                              ![id].last = <<[result |-> outcome, simulated |-> FALSE]>>]
    /\ UNCHANGED <<parseVars, entryVars, now, rlVars, pollVars, balance>>

NextTrade ==
    \/ \E b \in Balances : SetBalance(b)
    \/ \E t \in CommandTexts : ProcessCommand(t)
    \/ \E id \in TradeIds, rpcOk \in BOOLEAN : FundsCheck(id, rpcOk)
    \/ \E id \in TradeIds, o \in SwapOutcomes : ExecuteSwap(id, o)
    \/ \E id \in TradeIds, rpcOk \in BOOLEAN : ValidateFunds(id, rpcOk)
    \/ \E a \in {parseFloat("1")} : ExecuteSwapCreate(a)
    \/ \E id \in TradeIds, o \in SwapOutcomes : ExecuteSwapRoute(id, o)

SpecTrade == InitTrade /\ [][NextTrade]_vars

\* The continuation of POST /process-command is one async function: once the
\* response is sent, each of its awaits resolves and the next step runs.
ContinuationRuns ==
    \A id \in 1..MaxTrades :
        /\ WF_vars(\E rpcOk \in BOOLEAN : id \in TradeIds /\ FundsCheck(id, rpcOk))
        /\ WF_vars(\E o \in SwapOutcomes : id \in TradeIds /\ ExecuteSwap(id, o))

\* POST /process-command with the requests that read the balance around it
NextFlow ==
    \/ \E b \in Balances : SetBalance(b)
    \/ \E t \in CommandTexts : ProcessCommand(t)
    \/ \E id \in TradeIds, rpcOk \in BOOLEAN : FundsCheck(id, rpcOk)
    \/ \E id \in TradeIds, o \in SwapOutcomes : ExecuteSwap(id, o)
    \/ \E id \in TradeIds, rpcOk \in BOOLEAN : ValidateFunds(id, rpcOk)

SpecFlow == InitTrade /\ [][NextFlow]_vars /\ ContinuationRuns

\* ---- C13 ----
\* the Trade of a validated message whose funds check found balance >= amount + fee
FundsChecked(id) == id \in TradeIds /\ flows[id].pc = "swap"
CompletedWithSignature(id) ==
    /\ id \in TradeIds
    /\ trades[id].status = "completed"
    /\ trades[id].transactionSignature # None

\* C13: a message that parses and validates gets a Trade created in pending, and
\* once its funds check has found balance >= amount + fee the Trade eventually is
\* completed with a non-null transactionSignature, whatever the swap returned.
C13_PendingThenCompleted ==
    /\ [](\A id \in TradeIds :
            (flows[id].pc = "funds" /\ statusWrites[id] = 0) => trades[id].status = "pending")
    /\ \A id \in 1..MaxTrades : FundsChecked(id) ~> CompletedWithSignature(id)

\* a Trade completed by its continuation after the real swap had failed
C13_Witness ==
    \E id \in TradeIds :
        /\ flows[id].wrote = <<[status |-> "completed", error |-> None]>>
        /\ statusWrites[id] = 1
        /\ trades[id].status = "completed"
        /\ trades[id].transactionSignature = "simulated_"
        /\ balance >= trades[id].amount + transactionFee

C2_TerminalAbsorbing ==
    [][\A id \in TradeIds :
         trades[id].status \in Terminal =>
             /\ trades'[id].status = trades[id].status
             /\ swapCalls'[id] = swapCalls[id]]_vars

(***************************************************************************)
(* SpecEntry: one message, one wallet balance, and every entry point that  *)
(* executes a command.  Each request is one call chain, from the parse to  *)
(* the last updateTradeStatus; the balance does not move meanwhile.        *)
(***************************************************************************)
MaxRequests == 2

\* what a call chain did: the row it created (always in pending), whether it
\* called validateWalletFunds and executeJupiterSwap, and its last status write
Effect(created, fundsChecked, swapInvoked, status, sig, err) ==
    [created |-> created, fundsChecked |-> fundsChecked, swapInvoked |-> swapInvoked,
     status |-> status, signature |-> sig, error |-> err]

\* the request is answered before any row is created
Refused(fundsChecked) == Effect(FALSE, fundsChecked, FALSE, None, None, None)

\* part_003 POST /process-command, which processMention posts every mention to
processCommand(c, rpcOk, bal, o) ==
    IF ~validateCommand(c) THEN Refused(FALSE)
    ELSE IF ~validateWalletFunds(rpcOk, bal, c.amount, transactionFee)
    THEN Effect(TRUE, TRUE, FALSE, "failed", None, "Insufficient funds")
    ELSE LET r == OrSimulated(o, c.amount) IN
         IF r.success THEN Effect(TRUE, TRUE, TRUE, "completed", r.signature, None)
         ELSE Effect(TRUE, TRUE, TRUE, "failed", r.signature, r.error)

\* part_001 processMentionWebhook: the funds check comes before createTrade
processMentionWebhook(c, rpcOk, bal, o) ==
    IF ~validateCommand(c) THEN Refused(FALSE)
    ELSE IF ~validateWalletFunds(rpcOk, bal, c.amount, transactionFee) THEN Refused(TRUE)
    ELSE IF o.success THEN Effect(TRUE, TRUE, TRUE, "succeeded", o.signature, None)
    ELSE Effect(TRUE, TRUE, TRUE, "failed", None, o.error)

\* part_003 POST /process-pending-tweets, one tweet of its loop; POST /execute-swap
\* with forceReal does the same with the tweetText of its body
processPendingTweet(c, rpcOk, bal, o) ==
    IF ~validateCommand(c) THEN Refused(FALSE)
    ELSE IF o.success THEN Effect(TRUE, FALSE, TRUE, "completed", o.signature, None)
    ELSE Effect(TRUE, FALSE, TRUE, "failed", None, o.error)

\* part_003 POST /execute-swap, standard flow without a tradeId: botId, action,
\* inToken, outToken and amount come in the body and are only tested for
\* presence.  wallet: the botId of the body has a wallet and a configuration; they
\* are looked up after createTrade, and the route answers 404 without them
executeSwap(c, wallet, bal, o) ==
    IF ~c.ok \/ c.amount = 0 THEN Refused(FALSE)
    ELSE IF ~wallet THEN Effect(TRUE, FALSE, FALSE, "pending", None, None)
    ELSE IF o.success THEN Effect(TRUE, FALSE, TRUE, "completed", o.signature, None)
    ELSE Effect(TRUE, FALSE, TRUE, "failed", o.signature, o.error)

\* the tweet as the tweets table stores it
StoredTweet(t) == [tweetText |-> t, processed |-> FALSE, processingStatus |-> "pending"]

InitEntry ==
    /\ text \in CommandTexts
    /\ parsed = <<>>
    /\ validation = <<>>
    /\ now = 0
    /\ RLIdle
    /\ trades = <<>>
    /\ flows = <<>>
    /\ balance \in Balances
    /\ swapCalls = <<>>
    /\ statusWrites = <<>>
    /\ lastWrite = <<>>
    /\ tweets = <<StoredTweet(text)>>
    /\ handled = <<>>
    /\ PollIdle

\* the tables after a call chain with effect e, and the history of requests
Handle(route, rpcOk, o, e) ==
    LET id == Len(trades) + 1
        row == [status |-> "pending", amount |-> parseCommand(text).amount, outAmount |-> 0,
                transactionSignature |-> None, errorMessage |-> None]
    IN  /\ Len(handled) < MaxRequests
        /\ trades' = IF e.created
                     THEN updateTradeStatus(Append(trades, row), id, e.status, e.signature, e.error)
                     ELSE trades
        /\ swapCalls' = IF e.created THEN Append(swapCalls, IF e.swapInvoked THEN 1 ELSE 0)
                        ELSE swapCalls
        /\ handled' = Append(handled,
                        [route |-> route, rpcOk |-> rpcOk, swapSucceeds |-> o.success,
                         trade |-> IF e.created THEN id ELSE 0, effect |-> e])
        /\ UNCHANGED <<parseVars, now, rlVars, pollVars, flows, balance, statusWrites, lastWrite>>

\* processMention (part_002:469-506) or a client posts the message
PostProcessCommand(rpcOk, o) ==
    /\ Handle("process-command", rpcOk, o, processCommand(parseCommand(text), rpcOk, balance, o))
    /\ UNCHANGED tweets

\* the platform delivers the message as a tweet_create_event
MentionWebhook(rpcOk, o) ==
    /\ Handle("webhook", rpcOk, o, processMentionWebhook(parseCommand(text), rpcOk, balance, o))
    /\ UNCHANGED tweets

\* POST /process-pending-tweets: the unprocessed rows of the tweets table
ProcessPendingTweets(rpcOk, o) ==
    LET e == processPendingTweet(parseCommand(tweets[1].tweetText), rpcOk, balance, o) IN
    /\ ~tweets[1].processed
    /\ Handle("process-pending-tweets", rpcOk, o, e)
    /\ tweets' = [tweets EXCEPT ![1].processed = TRUE,
                                ![1].processingStatus = IF e.created THEN e.status ELSE "failed"]

\* POST /execute-swap { forceReal, botId, tweetText }
ExecuteSwapForceReal(rpcOk, o) ==
    /\ Handle("execute-swap forceReal", rpcOk, o,
              processPendingTweet(parseCommand(text), rpcOk, balance, o))
    /\ UNCHANGED tweets

\* POST /execute-swap { botId, action, inToken, outToken, amount }
ExecuteSwapFields(rpcOk, o, wallet) ==
    /\ Handle("execute-swap", rpcOk, o, executeSwap(parseCommand(text), wallet, balance, o))
    /\ UNCHANGED tweets

NextEntry ==
    \/ \E rpcOk \in BOOLEAN, o \in SwapOutcomes : PostProcessCommand(rpcOk, o)
    \/ \E rpcOk \in BOOLEAN, o \in SwapOutcomes : MentionWebhook(rpcOk, o)
    \/ \E rpcOk \in BOOLEAN, o \in SwapOutcomes : ProcessPendingTweets(rpcOk, o)
    \/ \E rpcOk \in BOOLEAN, o \in SwapOutcomes : ExecuteSwapForceReal(rpcOk, o)
    \/ \E rpcOk \in BOOLEAN, o \in SwapOutcomes, wallet \in BOOLEAN :
          ExecuteSwapFields(rpcOk, o, wallet)

SpecEntry == InitEntry /\ [][NextEntry]_vars

\* ---- C14 ----
\* the message does not parse, or its command is not one the bot accepts
Rejected ==
    LET c == parseCommand(text) IN
    \/ ~c.ok
    \/ c.action \notin supportedActions
    \/ ~({c.inToken, c.outToken} \subseteq supportedTokens)
    \/ c.amount <= 0
MessageRoutes ==
    {"process-command", "webhook", "process-pending-tweets", "execute-swap forceReal"}
RoutesHandled == {handled[i].route : i \in 1..Len(handled)}

\* C14: when parseCommand fails or validateCommand rejects the message, no entry
\* point that takes the message creates a Trade for it or invokes the swap, and
\* the stored tweet is closed as failed, so that it is not picked up again.
C14_RejectedMessageNoTrade ==
    Rejected =>
        /\ \A i \in 1..Len(handled) :
               handled[i].route \in MessageRoutes =>
                   /\ handled[i].trade = 0
                   /\ ~handled[i].effect.swapInvoked
        /\ \A id \in TradeIds :
               \E i \in 1..Len(handled) :
                   handled[i].trade = id /\ handled[i].route \notin MessageRoutes
        /\ "process-pending-tweets" \in RoutesHandled =>
               tweets[1].processed /\ tweets[1].processingStatus = "failed"

\* the sell command, which parses but is not among the bot's actions, handled by
\* process-command and by process-pending-tweets
C14_Witness ==
    /\ parseCommand(text).ok
    /\ Rejected
    /\ RoutesHandled = {"process-command", "process-pending-tweets"}
    /\ trades = <<>>
    /\ tweets[1].processed

\* ---- C16 ----
\* C16: for the same command, balance and swap outcome, every entry point creates
\* the Trade in pending, checks the funds before it invokes the swap, and records
\* the same terminal status, signature and error.
C16_SameOrchestration ==
    ~Rejected =>
        \A i \in 1..Len(handled) :
            /\ handled[i].effect.created
            /\ handled[i].effect.swapInvoked => handled[i].effect.fundsChecked
            /\ \A j \in 1..Len(handled) :
                   (handled[i].rpcOk = handled[j].rpcOk
                        /\ handled[i].swapSucceeds = handled[j].swapSucceeds)
                       => handled[i].effect = handled[j].effect

(***************************************************************************)
(* The mention scheduler (initMentionPolling, checkAndExecutePendingPolls,  *)
(* pollBotMentions) and getMentions.                                        *)
(* One bot.  Mention ids are numbers here and are compared the way the code *)
(* compares them: as strings of decimal digits.  0 stands for "no id"       *)
(* (null, undefined, '').  Times are seconds.                               *)
(***************************************************************************)
DEFAULT_POLL_INTERVAL == 60
MIN_POLL_INTERVAL == 30
MAX_BACKOFF_SECONDS == 3600
\* getMentions: queryParams.max_results
max_results == 10

Min(a, b) == IF a <= b THEN a ELSE b
Max(a, b) == IF a >= b THEN a ELSE b

NoId == 0
\* twitter_webhooks.next_poll_time is nullable: the value of a row without one
NoTime == -1

\* the decimal string of an id, as a sequence of digits
RECURSIVE Digits(_)
Digits(n) == IF n < 10 THEN <<n>> ELSE Append(Digits(n \div 10), n % 10)

\* a < b on JavaScript strings: by code unit, a proper prefix is smaller
RECURSIVE StringLess(_, _)
StringLess(a, b) ==
    IF b = <<>> THEN FALSE
    ELSE IF a = <<>> THEN TRUE
    ELSE IF a[1] # b[1] THEN a[1] < b[1]
    ELSE StringLess(Tail(a), Tail(b))

\* if (!highestTweetId || mention.id > highestTweetId) highestTweetId = mention.id
trackHighest(highestTweetId, id) ==
    IF highestTweetId = NoId \/ StringLess(Digits(highestTweetId), Digits(id))
    THEN id
    ELSE highestTweetId

\* the adaptation without the lower clamp
newPollIntervalHalves_NoClamp(pollInterval, k) ==
    IF k > 0
    THEN pollInterval
    ELSE IF pollInterval < DEFAULT_POLL_INTERVAL
         THEN Min(2 * DEFAULT_POLL_INTERVAL, 3 * pollInterval)
         ELSE 2 * pollInterval

\* the adaptation that relaxes to the default from above as well
newPollIntervalHalves_AlwaysRelax(pollInterval, k) ==
    IF k > 0
    THEN Max(2 * MIN_POLL_INTERVAL, pollInterval)
    ELSE Min(2 * DEFAULT_POLL_INTERVAL, 3 * pollInterval)

\* newPollInterval after a fetch of k mentions, in half seconds so that
\* pollInterval / 2 and pollInterval * 1.5 stay exact
newPollIntervalHalves(pollInterval, k) ==
    IF k > 0
    THEN Max(2 * MIN_POLL_INTERVAL, pollInterval)
    ELSE IF pollInterval < DEFAULT_POLL_INTERVAL
         THEN Min(2 * DEFAULT_POLL_INTERVAL, 3 * pollInterval)
         ELSE 2 * pollInterval

RECURSIVE Reverse(_)
Reverse(q) == IF q = <<>> THEN <<>> ELSE Append(Reverse(Tail(q)), Head(q))

\* the loop over the batch as it was returned
ProcessingOrder_AsReturned(mentions) == mentions

\* for (const mention of [...mentions].reverse())
ProcessingOrder(mentions) == Reverse(mentions)

MaxInFlight == 2
MaxPolls == 3
MaxMentions == 2
\* the ids of the bot's mentions, in the order they are posted
SampleIds == <<9, 10, 11, 12>>
\* seconds from a response to the reset time its rate-limit headers carry
RateLimitWindow == 30

\* the polls in flight, and the bag with p replaced by q
InFlight == BagToSet(polls)
Replace(p, q) == (polls (-) SetToBag({p})) (+) SetToBag({q})
AllIds == {SampleIds[i] : i \in 1..MaxMentions}
PostedIds == {SampleIds[i] : i \in 1..posted}

\* the backoffSeconds a twitter_webhooks row may hold when the server starts
PersistedBackoffs == {30, 120, 3600}

\* the search with since_id: the newest max_results mentions above since
SearchRecent(since) ==
    LET newer == {id \in PostedIds : id > since}
    IN {id \in newer : Cardinality({j \in newer : j > id}) < max_results}

\* the orders a batch can come in
Orders(S) ==
    {q \in [1..Cardinality(S) -> S] : \A i, j \in 1..Cardinality(S) : i # j => q[i] # q[j]}

\* what the API call can throw: code, and whether the error carries rateLimit
ApiErrors ==
    {[code |-> 429, rateLimit |-> TRUE],
     [code |-> 429, rateLimit |-> FALSE],
     [code |-> 503, rateLimit |-> FALSE]}

\* no error: v2.search returned, or was not called
NoError == [code |-> 0, rateLimit |-> FALSE]

\* a pollBotMentions call.  limited: search_recent was recorded as limited, with
\* its reset time ahead, when the call reached getMentions; requested: v2.search
\* was called; error: what v2.search threw
IdlePoll ==
    [pc |-> "idle", since |-> NoId, pollInterval |-> 0, newPollInterval |-> 0,
     nextPollTime |-> 0, mentions |-> <<>>, fetchedAt |-> 0, ok |-> FALSE, hit |-> FALSE,
     limited |-> FALSE, requested |-> FALSE, error |-> NoError]

\* pollBotMentions from the return of getMentions to the loop: newPollInterval
\* and nextPollTime
Fetched(p, mentions, ok, hit) ==
    LET h == newPollIntervalHalves(p.pollInterval, Len(mentions))
    IN [p EXCEPT !.pc = "fetched",
                 !.mentions = mentions,
                 !.newPollInterval = h \div 2,
                 !.nextPollTime = now + (h \div 2),
                 !.fetchedAt = now,
                 !.ok = ok,
                 !.hit = hit]

\* the loop over the batch: highestTweetId after the mentions of q, in that order
RECURSIVE highestAfter(_, _)
highestAfter(highestTweetId, q) ==
    IF q = <<>> THEN highestTweetId
    ELSE highestAfter(trackHighest(highestTweetId, Head(q)), Tail(q))

Range(q) == {q[i] : i \in DOMAIN q}

\* after setupPollingSchedule and resetRateLimits: a row without a due time, or
\* with one in the past, is set to poll now at the default interval; a row whose
\* nextPollTime is not in the past keeps it and its backoffSeconds, here a row
\* that is due at the very time the server starts
InitPoll ==
    /\ ParseIdle
    /\ now = 0
    /\ RLIdle
    /\ TradeIdle
    /\ EntryIdle
    /\ webhook \in
          {[lastMentionId |-> NoId, nextPollTime |-> 0, backoffSeconds |-> b] :
              b \in {DEFAULT_POLL_INTERVAL} \cup PersistedBackoffs}
    /\ posted = 0
    /\ polls = EmptyBag
    /\ started = 0
    /\ handed = [id \in AllIds |-> 0]
    /\ lastFinished = <<>>

\* somebody mentions the bot
PostMention ==
    /\ posted < MaxMentions
    /\ posted' = posted + 1
    /\ UNCHANGED <<parseVars, entryVars, now, rlVars, tradeVars, webhook, polls, started, handed, lastFinished>>

\* a tick of the one-second timer finds the bot due (a bot without a row, or with
\* a row without nextPollTime, is skipped); pollBotMentions reads the row and
\* calls getMentions, which answers [] at once when search_recent is limited.
\* Ticks do not wait for the polls of earlier ticks.
StartPoll ==
    LET lim == isRateLimited(rateLimitState, "search_recent", now)
        p == [IdlePoll EXCEPT
                !.pc = "fetching",
                !.limited = rateLimitState["search_recent"].isLimited
                               /\ now < rateLimitState["search_recent"].reset,
                !.requested = ~lim.result,
                !.since = webhook.lastMentionId,
                !.pollInterval = IF webhook.backoffSeconds = 0 THEN DEFAULT_POLL_INTERVAL
                                 ELSE webhook.backoffSeconds]
    IN /\ started < MaxPolls
       /\ BagCardinality(polls) < MaxInFlight
       /\ webhook # <<>>
       /\ webhook.nextPollTime # NoTime
       /\ webhook.nextPollTime <= now
       /\ rateLimitState' = lim.state
       /\ polls' = polls (+) SetToBag({IF lim.result THEN Fetched(p, <<>>, FALSE, TRUE) ELSE p})
       /\ started' = started + 1
       /\ UNCHANGED <<parseVars, entryVars, now, limitRecorded, lastCheck, lastAnswer, tradeVars,
                      webhook, posted, handed, lastFinished>>

\* v2.search answers with mentions, one of Orders(SearchRecent(p.since));
\* low: rateLimit.remaining <= 5
FetchOk(p, mentions, low) ==
    /\ p \in InFlight
    /\ p.pc = "fetching"
    /\ rateLimitState' = afterSearch(rateLimitState,
                                     IF low THEN LowWatermark ELSE LowWatermark + 1,
                                     now + RateLimitWindow)
    /\ polls' = Replace(p, Fetched(p, mentions, TRUE, FALSE))
    /\ UNCHANGED <<parseVars, entryVars, now, limitRecorded, lastCheck, lastAnswer, tradeVars,
                   webhook, posted, started, handed, lastFinished>>

\* v2.search throws: handleTwitterError, and getMentions returns []
FetchError(p, error) ==
    /\ p \in InFlight
    /\ p.pc = "fetching"
    /\ rateLimitState' = handleTwitterError(rateLimitState,
                                            [code |-> error.code, rateLimit |-> error.rateLimit,
                                             reset |-> now + RateLimitWindow],
                                            "search_recent")
    /\ polls' = Replace(p, [Fetched(p, <<>>, FALSE, error.code = 429) EXCEPT !.error = error])
    /\ UNCHANGED <<parseVars, entryVars, now, limitRecorded, lastCheck, lastAnswer, tradeVars,
                   webhook, posted, started, handed, lastFinished>>

\* the backoff the last persisted poll left, if that poll was a rate-limit hit
lastHit ==
    IF lastFinished # <<>> /\ lastFinished[1].hit THEN <<webhook.backoffSeconds>> ELSE <<>>

\* a processMention without its try/catch: a failure leaves it as an exception
processMentionThrows_Uncaught(failed) == failed

\* processMention(botId, tweet): the POST to /process-command and the reading of
\* its answer are inside one try/catch, so nothing leaves it as an exception
\* (failed: the answer is not ok, or the request itself threw)
processMentionThrows(failed) == FALSE

\* the rest of pollBotMentions: the loop hands each mention to processMention
\* and tracks the highest id, updateLastMentionId when that id differs from the
\* one read, then updatePollSchedule.  failedAt: the place in the loop of the
\* mention whose processing fails, 0 when all succeed.  An exception in the loop
\* would end in the catch block, which only writes the schedule, with the
\* interval as it was read.
FinishPoll(p, failedAt) ==
    LET order == ProcessingOrder(p.mentions)
        aborted == failedAt # 0 /\ processMentionThrows(TRUE)
        done == IF aborted THEN SubSeq(order, 1, failedAt) ELSE order
        highestTweetId == highestAfter(p.since, order)
        newId == IF ~aborted /\ p.mentions # <<>> /\ highestTweetId # NoId
                    /\ highestTweetId # p.since
                 THEN highestTweetId
                 ELSE webhook.lastMentionId
    IN /\ p \in InFlight
       /\ p.pc = "fetched"
       /\ failedAt \in 0..Len(order)
       /\ handed' = [id \in AllIds |-> IF id \in Range(done) THEN Min(2, handed[id] + 1)
                                       ELSE handed[id]]
       /\ webhook' = [lastMentionId |-> newId,
                      nextPollTime |-> IF aborted THEN now + p.pollInterval ELSE p.nextPollTime,
                      backoffSeconds |-> IF aborted THEN p.pollInterval ELSE p.newPollInterval]
       /\ polls' = polls (-) SetToBag({p})
       /\ lastFinished' = <<[pollInterval |-> p.pollInterval, mentions |-> p.mentions,
                             order |-> order, ok |-> p.ok, hit |-> p.hit,
                             interval |-> p.nextPollTime - p.fetchedAt,
                             before |-> webhook.lastMentionId,
                             lastHit |-> lastHit,
                             since |-> p.since, failedAt |-> failedAt, done |-> done,
                             limited |-> p.limited, requested |-> p.requested,
                             error |-> p.error]>>
       /\ UNCHANGED <<parseVars, entryVars, now, rlVars, tradeVars, posted, started>>

NextPoll ==
    \/ Advance
    \/ PostMention
    \/ StartPoll
    \/ \E p \in {q \in InFlight : q.pc = "fetching"}, low \in BOOLEAN :
          \E mentions \in Orders(SearchRecent(p.since)) : FetchOk(p, mentions, low)
    \/ \E p \in InFlight, error \in ApiErrors : FetchError(p, error)
    \/ \E p \in InFlight : FinishPoll(p, 0)

SpecPoll == InitPoll /\ [][NextPoll]_vars

(***************************************************************************)
(* SpecCycle: one poll cycle from the return of getMentions on, with a     *)
(* failure at any place of the loop.  What happens inside processMention   *)
(* leaves no trace in the scheduler's state, so SpecPoll does not draw it. *)
(***************************************************************************)
InitCycle ==
    /\ ParseIdle
    /\ now \in {t \in 0..MaxTime : t % ClockStep = 0}
    /\ RLIdle
    /\ TradeIdle
    /\ EntryIdle
    /\ posted \in 0..MaxMentions
    /\ \E b \in {DEFAULT_POLL_INTERVAL} \cup PersistedBackoffs, since \in {NoId} \cup PostedIds :
          /\ webhook = [lastMentionId |-> since, nextPollTime |-> 0, backoffSeconds |-> b]
          /\ \E mentions \in Orders(SearchRecent(since)) :
                polls = SetToBag({Fetched([IdlePoll EXCEPT !.since = since, !.pollInterval = b,
                                                           !.requested = TRUE],
                                          mentions, TRUE, FALSE)})
    /\ started = 1
    /\ handed = [id \in AllIds |-> 0]
    /\ lastFinished = <<>>

NextCycle == \E p \in InFlight : \E failedAt \in 0..Len(p.mentions) : FinishPoll(p, failedAt)

SpecCycle == InitCycle /\ [][NextCycle]_vars

(***************************************************************************)
(* SpecBatch: one poll cycle whose loop is taken step by step, with the     *)
(* continuations of POST /process-command that its mentions leave behind.   *)
(***************************************************************************)
InitBatch ==
    /\ ParseIdle
    /\ now = 0
    /\ RLIdle
    /\ trades = <<>>
    /\ flows = <<>>
    /\ balance \in Balances
    /\ swapCalls = <<>>
    /\ statusWrites = <<>>
    /\ lastWrite = <<>>
    /\ tweets = <<>>
    /\ handled = <<>>
    /\ posted = MaxMentions
    /\ webhook = [lastMentionId |-> NoId, nextPollTime |-> 0,
                  backoffSeconds |-> DEFAULT_POLL_INTERVAL]
    /\ \E mentions \in Orders(SearchRecent(NoId)) :
          polls = SetToBag({Fetched([IdlePoll EXCEPT !.pollInterval = DEFAULT_POLL_INTERVAL,
                                                     !.requested = TRUE],
                                    mentions, TRUE, FALSE)})
    /\ started = 1
    /\ handed = [id \in AllIds |-> 0]
    /\ lastFinished = <<>>

\* one turn of the loop of pollBotMentions: await processMention, which posts the
\* mention to /process-command and returns when the response is there.  The route
\* responds right after createTrade (or with 400), before its continuation runs.
ProcessMention(p, t) ==
    LET order == ProcessingOrder(p.mentions)
        k == Len(handled) + 1
        c == parseCommand(t)
    IN  /\ p \in InFlight
        /\ p.pc = "fetched"
        /\ k <= Len(order)
        /\ IF validateCommand(c)
           THEN InsertTrade(c.amount, "funds")
           ELSE UNCHANGED <<trades, flows, swapCalls, statusWrites>>
        /\ handled' = Append(handled,
                        [route |-> "process-command", tweetId |-> order[k],
                         trade |-> IF validateCommand(c) THEN Len(trades) + 1 ELSE 0])
        /\ UNCHANGED <<parseVars, tweets, now, rlVars, pollVars, balance, lastWrite>>

\* the loop is through: updateLastMentionId and updatePollSchedule
PersistPoll(p) ==
    /\ Len(handled) = Len(p.mentions)
    /\ FinishPoll(p, 0)

NextBatch ==
    \/ \E p \in InFlight, t \in CommandTexts : ProcessMention(p, t)
    \/ \E p \in InFlight : PersistPoll(p)
    \/ \E id \in TradeIds, rpcOk \in BOOLEAN : FundsCheck(id, rpcOk)
    \/ \E id \in TradeIds, o \in SwapOutcomes : ExecuteSwap(id, o)

SpecBatch == InitBatch /\ [][NextBatch]_vars

(***************************************************************************)
(* SpecBots: the scheduler and a bot that either was there when the server *)
(* started or is created through POST /bots afterwards.  Nobody mentions   *)
(* the bot.  The timer fires every second and every await resolves.        *)
(***************************************************************************)
\* initMentionPolling has run: setupPollingSchedule gave the bot that existed a
\* row due now with the default interval; a bot that does not exist has no row
InitBots ==
    /\ ParseIdle
    /\ now = 0
    /\ RLIdle
    /\ TradeIdle
    /\ EntryIdle
    /\ webhook \in {<<>>, [lastMentionId |-> NoId, nextPollTime |-> 0,
                            backoffSeconds |-> DEFAULT_POLL_INTERVAL]}
    /\ posted = 0
    /\ polls = EmptyBag
    /\ started = 0
    /\ handed = [id \in AllIds |-> 0]
    /\ lastFinished = <<>>

\* POST /bots, step 4: createTwitterWebhook({ botId, webhookUrl, apiKeyId }); the
\* row gets no nextPollTime, and backoffSeconds gets the default of the column
CreateBot ==
    /\ webhook = <<>>
    /\ webhook' = [lastMentionId |-> NoId, nextPollTime |-> NoTime,
                   backoffSeconds |-> MIN_POLL_INTERVAL]
    /\ UNCHANGED <<parseVars, entryVars, now, rlVars, tradeVars, posted, polls, started, handed,
                   lastFinished>>

Fetch ==
    \/ \E p \in {q \in InFlight : q.pc = "fetching"}, low \in BOOLEAN :
          \E mentions \in Orders(SearchRecent(p.since)) : FetchOk(p, mentions, low)
    \/ \E p \in InFlight, error \in ApiErrors : FetchError(p, error)

Finish == \E p \in InFlight : FinishPoll(p, 0)

NextBots == Advance \/ CreateBot \/ StartPoll \/ Fetch \/ Finish

\* setInterval fires the tick every second, the clock runs, and the awaits of a
\* poll resolve
TicksAndAwaitsRun ==
    /\ WF_vars(Advance)
    /\ WF_vars(StartPoll)
    /\ WF_vars(Fetch)
    /\ WF_vars(Finish)

SpecBots == InitBots /\ [][NextBots]_vars /\ TicksAndAwaitsRun

\* no interval the scheduler persists has a fractional part
IntervalsAreWhole ==
    \A p \in InFlight :
        p.pc = "fetched" => newPollIntervalHalves(p.pollInterval, Len(p.mentions)) % 2 = 0

IsIncreasing(q) == \A i, j \in DOMAIN q : i < j => q[i] < q[j]
IsDecreasing(q) == \A i, j \in DOMAIN q : i < j => q[i] > q[j]
MaxOf(S) == CHOOSE m \in S : \A x \in S : x <= m

\* ---- C3 ----
\* C3: across ticks and polls, no mention id is handed to processMention more
\* than once.
C3_HandedAtMostOnce ==
    \A id \in AllIds : handed[id] <= 1

\* ---- C4 ----
\* C4: after a poll with a non-empty batch has persisted, lastMentionId is the
\* numerically largest of the ids of the batch and the watermark before.
C4_WatermarkIsNumericMax ==
    (lastFinished # <<>> /\ lastFinished[1].mentions # <<>>) =>
        webhook.lastMentionId = MaxOf(Range(lastFinished[1].mentions) \cup {lastFinished[1].before})

C6_BackoffMonotoneAcrossHits ==
    (lastFinished # <<>> /\ lastFinished[1].hit) =>
        /\ webhook.backoffSeconds <= MAX_BACKOFF_SECONDS
        /\ \A b \in Range(lastFinished[1].lastHit) : webhook.backoffSeconds >= b

\* ---- C7 ----
\* a successful poll that found nothing has just persisted its schedule
EmptyPollPersisted ==
    /\ lastFinished # <<>>
    /\ lastFinished[1].ok
    /\ lastFinished[1].mentions = <<>>
    /\ lastFinished[1].pollInterval >= MIN_POLL_INTERVAL
    /\ lastFinished[1].pollInterval <= MAX_BACKOFF_SECONDS

C8_HalveOnActivity ==
    (/\ lastFinished # <<>>
     /\ lastFinished[1].ok
     /\ lastFinished[1].mentions # <<>>
     /\ lastFinished[1].pollInterval >= MIN_POLL_INTERVAL
     /\ lastFinished[1].pollInterval <= MAX_BACKOFF_SECONDS) =>
        /\ 2 * webhook.backoffSeconds =
              Max(2 * MIN_POLL_INTERVAL, lastFinished[1].pollInterval)
        /\ lastFinished[1].interval = webhook.backoffSeconds

\* a poll at b = 60 that found a mention left 30
C8_Witness ==
    /\ lastFinished # <<>>
    /\ lastFinished[1].ok
    /\ lastFinished[1].mentions # <<>>
    /\ lastFinished[1].pollInterval = 60
    /\ webhook.backoffSeconds = 30
    /\ webhook.nextPollTime = now + 30

\* ---- C17 ----
BASE_BACKOFF_MULTIPLIER == 2
\* seconds added to the reset time an error carries
SafetyBuffer == 5

\* the catch block of pollBotMentions for error.code === 429: newBackoffSeconds
rateLimitBackoff(pollInterval) ==
    Min(pollInterval * BASE_BACKOFF_MULTIPLIER, MAX_BACKOFF_SECONDS)

\* C17: when the search of a poll is answered with a 429, the persisted
\* backoffSeconds is min(backoffSeconds * BASE_BACKOFF_MULTIPLIER,
\* MAX_BACKOFF_SECONDS), and nextPollTime is the error's reset time plus the
\* safety buffer when the error carries one, else now + the new backoff.
C17_Backoff429 ==
    (lastFinished # <<>> /\ lastFinished[1].error.code = 429) =>
        LET f == lastFinished[1] IN
        /\ webhook.backoffSeconds = rateLimitBackoff(f.pollInterval)
        /\ f.interval = IF f.error.rateLimit THEN RateLimitWindow + SafetyBuffer
                        ELSE rateLimitBackoff(f.pollInterval)

\* ---- C19 ----
\* C19: a poll that reaches getMentions while search_recent is recorded as
\* limited and the reset time is still ahead calls no search, gets zero mentions
\* and hands nothing to processMention.
C19_NoSearchWhileLimited ==
    /\ \A p \in InFlight :
           p.limited => (~p.requested /\ p.pc = "fetched" /\ p.mentions = <<>>)
    /\ (lastFinished # <<>> /\ lastFinished[1].limited) =>
           /\ ~lastFinished[1].requested
           /\ lastFinished[1].mentions = <<>>
           /\ lastFinished[1].done = <<>>

\* a poll refused by the gate while a mention nobody has fetched is waiting
C19_Witness ==
    /\ lastFinished # <<>>
    /\ lastFinished[1].limited
    /\ posted > 0
    /\ \A id \in AllIds : handed[id] = 0
    /\ rateLimitState["search_recent"].isLimited

\* ---- C20 ----
\* C20: when the search of a poll fails with an error that is not a 429, the
\* persisted backoffSeconds is the one the poll read, and nextPollTime is now +
\* that backoffSeconds.
C20_TransientKeepsBackoff ==
    (lastFinished # <<>> /\ lastFinished[1].error.code \notin {0, 429}) =>
        /\ webhook.backoffSeconds = lastFinished[1].pollInterval
        /\ lastFinished[1].interval = lastFinished[1].pollInterval

\* ---- C15 ----
\* C15: when the processing of one mention of a batch fails, the loop still hands
\* every later mention of the batch to processMention, and the cycle ends as a
\* cycle without failure does: the watermark is written when the highest id of
\* the batch differs from the one read, and the schedule is written with the
\* adapted interval.
C15_FailureDoesNotAbortCycle ==
    (lastFinished # <<>> /\ lastFinished[1].failedAt # 0) =>
        LET f == lastFinished[1]
            highestTweetId == highestAfter(f.since, f.order)
        IN  /\ f.done = f.order
            /\ webhook.lastMentionId =
                   IF highestTweetId # NoId /\ highestTweetId # f.since THEN highestTweetId
                   ELSE f.before
            /\ webhook.backoffSeconds = f.interval
            /\ webhook.nextPollTime <= now + f.interval
            /\ webhook.nextPollTime >= f.interval

\* a batch of two whose first mention fails: the second is handed over and the
\* watermark moves
C15_Witness ==
    /\ lastFinished # <<>>
    /\ Len(lastFinished[1].order) = 2
    /\ lastFinished[1].failedAt = 1
    /\ handed[lastFinished[1].order[2]] > 0
    /\ webhook.lastMentionId # lastFinished[1].before

\* ---- C21 ----
\* C21: the persisted backoffSeconds of the bot is at least MIN_POLL_INTERVAL and
\* at most MAX_BACKOFF_SECONDS in every state: after the schedule is set up and
\* after every poll, with or without mentions, refused by the rate-limit gate or
\* failed in its search.
C21_BackoffWithinBounds ==
    /\ webhook.backoffSeconds >= MIN_POLL_INTERVAL
    /\ webhook.backoffSeconds <= MAX_BACKOFF_SECONDS

\* a poll at the minimum interval that found a mention: half of it would be 15
C21_Witness ==
    /\ lastFinished # <<>>
    /\ lastFinished[1].pollInterval = MIN_POLL_INTERVAL
    /\ lastFinished[1].mentions # <<>>
    /\ webhook.backoffSeconds = MIN_POLL_INTERVAL

\* ---- C22 ----
\* C22: every schedule update a poll persists leaves nextPollTime at or after the
\* nextPollTime it replaces, whatever the ticks and the polls in flight do.
C22_NextPollTimeMonotone ==
    [][webhook'.nextPollTime >= webhook.nextPollTime]_vars

\* ---- C24 ----
\* C24: at most one pollBotMentions call of the bot is in flight at any time: no
\* tick starts a poll while the poll of an earlier tick has not yet persisted its
\* schedule.
C24_OnePollInFlight ==
    BagCardinality(polls) <= 1

\* ---- C23 ----
\* the continuation of Trade id has begun its funds check
ContinuationBegun(id) == flows[id].pc # "funds"

\* C23: the mentions of one batch are orchestrated one after another: when the
\* funds check or the swap of the Trade of a later mention begins, the Trade of
\* every earlier mention of the batch is completed or failed.
C23_BatchOrchestratedInSequence ==
    \A i, j \in TradeIds :
        (i < j /\ ContinuationBegun(j)) => trades[i].status \in Terminal

\* ---- C25 ----
\* C25: every Trade in status completed has a transactionSignature, and its
\* stored outAmount is the output amount of the swap result that completed it.
C25_CompletedStoresResult ==
    \A id \in TradeIds :
        trades[id].status = "completed" =>
            /\ trades[id].transactionSignature # None
            /\ flows[id].last # <<>>
            /\ trades[id].outAmount = flows[id].last[1].result.outputAmount

\* ---- C26 ----
\* the signature starts with 'simulated_'; a signature of the network is base58
\* and has no underscore
HasSimulatedPrefix(sig) == sig = "simulated_"

\* C26: a Trade completed with the simulated result, which the orchestrator puts
\* in the place of a failed swap, carries a transactionSignature with the prefix
\* 'simulated_', and a Trade completed with the result of a real swap does not.
C26_SimulatedCompletionTagged ==
    \A id \in TradeIds :
        (trades[id].status = "completed" /\ flows[id].last # <<>>) =>
            (flows[id].last[1].simulated <=> HasSimulatedPrefix(trades[id].transactionSignature))

\* a Trade that a real swap had completed, completed again by the continuation
\* of process-command after its own swap failed
C26_Witness ==
    \E id \in TradeIds :
        /\ trades[id].status = "completed"
        /\ statusWrites[id] = 2
        /\ swapCalls[id] = 2
        /\ flows[id].last # <<>>
        /\ flows[id].last[1].simulated
        /\ HasSimulatedPrefix(trades[id].transactionSignature)

\* ---- C27 ----
\* the states of a Trade and the changes between them, as the state machine
\* of the orchestrator has them
TradeStatuses == {"pending", "executing", "completed", "failed"}
StatusChanges ==
    {<<"pending", "executing">>, <<"executing", "completed">>, <<"executing", "failed">>,
     <<"pending", "failed">>}

\* C27: on every entry point, the status of every Trade is one of pending,
\* executing, completed, failed, and the status write of a call chain, made on
\* the row it created in pending, is a change of that state machine.
C27_StatusStateMachine ==
    /\ \A id \in TradeIds : trades[id].status \in TradeStatuses
    /\ \A i \in 1..Len(handled) :
           (handled[i].effect.created /\ handled[i].effect.status # "pending")
               => <<"pending", handled[i].effect.status>> \in StatusChanges

\* ---- C28 ----
\* C28: every Trade is finalized by the call chain that created it: once the
\* request that created a Trade has been handled to its end, the Trade is no
\* longer pending.
C28_FinalizedByItsCallChain ==
    \A i \in 1..Len(handled) :
        handled[i].trade # 0 => trades[handled[i].trade].status # "pending"

\* ---- C29 ----
\* the supported token symbols that occur in the text
SymbolsInText == {toUpperCase(text[i]) : i \in TokenPositions}

\* C29: a text with fewer than two distinct supported token symbols parses to
\* null, and every command parseCommand returns has an inToken and an outToken
\* that differ and are both among SOL, USDC, JUP.
C29_TwoDistinctTokens ==
    parsed # <<>> =>
        /\ Cardinality(SymbolsInText) < 2 => parsed[1] = NullCommand
        /\ parsed[1].ok =>
               /\ parsed[1].inToken # parsed[1].outToken
               /\ {parsed[1].inToken, parsed[1].outToken} \subseteq SUPPORTED_TOKENS

\* ---- C30 ----
\* the bot is active and has a handle: it has a twitter_webhooks row
BotExists == webhook # <<>>
Polled == webhook # <<>> /\ webhook.nextPollTime # NoTime /\ started > 0

\* C30: a bot, whether it existed when the scheduler was initialised or was
\* created through POST /bots afterwards, eventually has a nextPollTime and a
\* poll started for it.
C30_EveryBotEventuallyPolled ==
    BotExists ~> Polled

====
